---------------------------- MODULE Spec2Model ----------------------------
(***************************************************************************)
(* State-machine model of the CometChat UI-kit review application:         *)
(*   - src/src/main.tsx              startup chain (init, session check,   *)
(*                                   login, mount of the UI tree)          *)
(*   - src/unnamed/part_001 (App)    the two routes "/" and "/demo-ui"     *)
(*   - src/unnamed/part_000 (LandingPage) the collapsible review items     *)
(*   - src/src/ChatDemo/ChatDemo.tsx the demo screen: selection slots,     *)
(*                                   call listener, call-log lookups, view *)
(*                                                                         *)
(* Every handler (promise continuation, click callback, effect) is one     *)
(* action: React 18 (createRoot) batches all state setters of a handler    *)
(* into a single render, so no intermediate state is observable.           *)
(***************************************************************************)
EXTENDS Integers, Sequences, FiniteSets, TLC

(***************************************************************************)
(* Bounds of the model.                                                    *)
(***************************************************************************)
\* session lookups of call-log clicks that may be in flight at once
MaxPending == 2
\* largest value Date.now() returns in the model
MaxClock == 1
\* how often the demo screen may be mounted
MaxMounts == 2
\* number of collapsible review items on the landing page
NumItems == 3

(***************************************************************************)
(* SDK entities.  `kind` is what `instanceof` tests.                       *)
(***************************************************************************)
None == [kind |-> "none", id |-> 0]

User(i) == [kind |-> "user", id |-> i]

Group(i) == [kind |-> "group", id |-> i]

\* a receiver object that is an instance of neither CometChat.User nor
\* CometChat.Group (ChatDemo.tsx:60-66 has no final else for it)
Plain == [kind |-> "object", id |-> 0]

\* const UID = "cometchat-uid-1"
UID == 1

Users == {User(1), User(2)}

Groups == {Group(1)}

Call(i, r) == [kind |-> "call", initiator |-> i, receiver |-> r]

Calls == {Call(i, r) : i \in Users, r \in Users \cup Groups \cup {Plain}}

Conversation(e) == [kind |-> "conversation", with |-> e]

Conversations == {Conversation(e) : e \in Users \cup Groups}

\* what the selector can hand to onSelectorItemClicked
Items == Users \cup Groups \cup Calls \cup Conversations \cup {Plain}

IsUser(x) == x.kind = "user"

IsGroup(x) == x.kind = "group"

IsCall(x) == x.kind = "call"

IsConversation(x) == x.kind = "conversation"

\* the ids of the DXItems the landing page lists
ItemIds == 1..NumItems

VARIABLES
    \* ---- main.tsx -------------------------------------------------------
    initState,      \* promise of CometChatUIKit.init
    sessionState,   \* promise of CometChatUIKit.getLoggedinUser
    loginState,     \* promise of CometChatUIKit.login
    loggedInUser,   \* the SDK's session: None or the logged-in user
    startupTrace,   \* SDK calls and mounts of the startup chain, in order
    console,        \* messages written by console.log / console.error
    \* ---- App ------------------------------------------------------------
    screen,         \* "none" (nothing mounted), "landing" or "demo"
    \* ---- LandingPage ----------------------------------------------------
    openItems,      \* the set of ids of the open items
    \* ---- ChatDemo -------------------------------------------------------
    selectedUser,
    selectedGroup,
    selectedCall,
    outgoingCall,
    pending,        \* calls whose CometChat.getLoggedinUser() is in flight;
                    \* the lookups are unordered, the sequence lists them
                    \* in a fixed order of the calls
    callListeners,  \* listener IDs registered with CometChat.addCallListener
    listenerID,     \* the listenerID captured by the effect's cleanup
    now,            \* last value Date.now() returned
    \* ---- history (not program state) ------------------------------------
    demoMounts,     \* how often the demo screen has been mounted
    lastClick,      \* last item handed to onSelectorItemClicked
    lastWrite,      \* last handler that wrote the selection slots, with
                    \* the item or call it handled
    lastReject,     \* the four slots as they were when a lookup rejected,
                    \* kept until a handler writes the selection slots
    toggleHist      \* the last two toggleItem calls: id and open set before

startupVars == <<initState, sessionState, loginState, loggedInUser,
                 startupTrace, console>>

demoVars == <<selectedUser, selectedGroup, selectedCall, outgoingCall,
              pending, callListeners, listenerID, now, demoMounts, lastClick,
              lastWrite, lastReject>>

landingVars == <<openItems, toggleHist>>

vars == <<initState, sessionState, loginState, loggedInUser, startupTrace,
          console, screen, selectedUser, selectedGroup, selectedCall,
          outgoingCall, pending, callListeners, listenerID, now, demoMounts,
          lastClick, lastWrite, lastReject, openItems, toggleHist>>

(***************************************************************************)
(* Helpers on sequences.                                                   *)
(***************************************************************************)
Count(s, x) == Cardinality({i \in 1..Len(s) : s[i] = x})

Remove(s, i) == [j \in 1..(Len(s) - 1) |-> IF j < i THEN s[j] ELSE s[j + 1]]

\* a fixed order of the calls, used only to list the lookups in flight
CallRank(call) ==
    call.initiator.id * 10 +
        (IF IsUser(call.receiver) THEN call.receiver.id
         ELSE IF IsGroup(call.receiver) THEN 5 + call.receiver.id
         ELSE 9)

\* one more lookup in flight
AddLookup(ps, call) ==
    LET k == Cardinality({j \in 1..Len(ps) : CallRank(ps[j]) <= CallRank(call)})
    IN [j \in 1..(Len(ps) + 1) |->
           IF j <= k THEN ps[j] ELSE IF j = k + 1 THEN call ELSE ps[j - 1]]

\* the last two elements of a sequence
LastTwo(s) == IF Len(s) <= 2 THEN s ELSE SubSeq(s, Len(s) - 1, Len(s))

\* no lookup has rejected since the selection slots were last written
NoReject == [kind |-> "none"]

(***************************************************************************)
(* ChatDemo: mount and unmount of the screen.                              *)
(***************************************************************************)
\* CometChat.addCallListener(id, ...): the SDK keeps one listener per ID
AddCallListener(ls, id) == ls \cup {id}

\* CometChat.removeCallListener(id)
RemoveCallListener(ls, id) == ls \ {id}

\* variant: the cleanup recomputes "CALL_LISTENER_" + Date.now() instead of
\* using the ID its effect run captured
EffectCleanup_RecomputesID(ls, registered, clock) ==
    RemoveCallListener(ls, clock)

\* the effect's cleanup: removes the ID its own effect run registered
EffectCleanup(ls, registered, clock) == RemoveCallListener(ls, registered)

\* useState(undefined) x 4, then the useEffect body.  Under <StrictMode> a
\* development build runs effect, cleanup, effect; a production build runs
\* the effect once.  Date.now() never goes backwards.
MountChatDemo ==
    /\ demoMounts < MaxMounts
    /\ demoMounts' = demoMounts + 1
    /\ selectedUser' = None
    /\ selectedGroup' = None
    /\ selectedCall' = None
    /\ outgoingCall' = None
    /\ pending' = <<>>
    /\ lastClick' = None
    /\ lastWrite' = [op |-> "none", arg |-> None]
    /\ lastReject' = NoReject
    /\ \E t1 \in now..MaxClock :
          \/ /\ callListeners' = AddCallListener(callListeners, t1)
             /\ listenerID' = t1
             /\ now' = t1
          \/ \E t2 \in t1..MaxClock : \E t3 \in t2..MaxClock :
                /\ callListeners' =
                      AddCallListener(
                          EffectCleanup(AddCallListener(callListeners, t1),
                                        t1, t2),
                          t3)
                /\ listenerID' = t3
                /\ now' = t3

\* unmount: the cleanup runs and the component's state is discarded; the
\* continuations of lookups still in flight only call setters of the
\* discarded instance, which React ignores
UnmountChatDemo ==
    /\ \E t \in now..MaxClock :
          /\ callListeners' = EffectCleanup(callListeners, listenerID, t)
          /\ now' = t
    /\ listenerID' = -1
    /\ UNCHANGED demoMounts
    /\ selectedUser' = None
    /\ selectedGroup' = None
    /\ selectedCall' = None
    /\ outgoingCall' = None
    /\ pending' = <<>>
    /\ lastClick' = None
    /\ lastWrite' = [op |-> "none", arg |-> None]
    /\ lastReject' = NoReject

(***************************************************************************)
(* main.tsx: createRoot(...).render(<StrictMode><App/></StrictMode>).      *)
(* The router shows the screen of the current URL.                         *)
(***************************************************************************)
\* LandingPage mounts: useState(new Set())
MountLandingPage ==
    /\ openItems' = {}
    /\ toggleHist' = <<>>

\* LandingPage unmounts: its state is discarded
UnmountLandingPage ==
    /\ openItems' = {}
    /\ toggleHist' = <<>>

MountApp ==
    \/ /\ screen' = "landing"
       /\ MountLandingPage
       /\ UNCHANGED demoVars
    \/ /\ screen' = "demo"
       /\ MountChatDemo
       /\ UNCHANGED landingVars

(***************************************************************************)
(* main.tsx: the startup chain.                                            *)
(***************************************************************************)
Init ==
    /\ initState = "pending"
    /\ sessionState = "idle"
    /\ loginState = "idle"
    /\ loggedInUser \in {None, User(UID)}
    /\ startupTrace = <<"init">>
    /\ console = <<>>
    /\ screen = "none"
    /\ selectedUser = None
    /\ selectedGroup = None
    /\ selectedCall = None
    /\ outgoingCall = None
    /\ pending = <<>>
    /\ callListeners = {}
    /\ listenerID = -1
    /\ now = 0
    /\ demoMounts = 0
    /\ lastClick = None
    /\ lastWrite = [op |-> "none", arg |-> None]
    /\ lastReject = NoReject
    /\ openItems = {}
    /\ toggleHist = <<>>

\* init(...).then(() => { console.log(...); getLoggedinUser().then(...) })
InitResolved ==
    /\ initState = "pending"
    /\ initState' = "resolved"
    /\ console' = Append(console, "initialized")
    /\ sessionState' = "pending"
    /\ startupTrace' = Append(startupTrace, "getLoggedinUser")
    /\ UNCHANGED <<loginState, loggedInUser, screen, demoVars, landingVars>>

\* init(...).catch(error => console.error(...))
InitRejected ==
    /\ initState = "pending"
    /\ initState' = "rejected"
    /\ console' = Append(console, "init failed")
    /\ UNCHANGED <<sessionState, loginState, loggedInUser, startupTrace,
                   screen, demoVars, landingVars>>

\* variant: the else is missing, so an existing session mounts and logs in
SessionResolved_FallsThrough ==
    /\ sessionState = "pending"
    /\ IF loggedInUser = None
       THEN /\ sessionState' = "null"
            /\ loginState' = "pending"
            /\ startupTrace' = Append(startupTrace, "login")
            /\ UNCHANGED <<screen, demoVars, landingVars>>
       ELSE /\ sessionState' = "user"
            /\ loginState' = "pending"
            /\ startupTrace' = startupTrace \o <<"mount", "login">>
            /\ MountApp
    /\ UNCHANGED <<initState, loggedInUser, console>>

\* variant: the mount is not inside the else branch
SessionResolved_MountsAnyway ==
    /\ sessionState = "pending"
    /\ IF loggedInUser = None
       THEN /\ sessionState' = "null"
            /\ loginState' = "pending"
            /\ startupTrace' = startupTrace \o <<"login", "mount">>
            /\ MountApp
       ELSE /\ sessionState' = "user"
            /\ startupTrace' = Append(startupTrace, "mount")
            /\ MountApp
            /\ UNCHANGED loginState
    /\ UNCHANGED <<initState, loggedInUser, console>>

\* getLoggedinUser().then(user => { if (!user) login(UID)... else mount })
SessionResolved ==
    /\ sessionState = "pending"
    /\ IF loggedInUser = None
       THEN /\ sessionState' = "null"
            /\ loginState' = "pending"
            /\ startupTrace' = Append(startupTrace, "login")
            /\ UNCHANGED <<screen, demoVars, landingVars>>
       ELSE /\ sessionState' = "user"
            /\ startupTrace' = Append(startupTrace, "mount")
            /\ MountApp
            /\ UNCHANGED loginState
    /\ UNCHANGED <<initState, loggedInUser, console>>

\* getLoggedinUser() rejects: the inner chain has no catch and is not
\* returned to the outer chain, so no handler runs
SessionRejected ==
    /\ sessionState = "pending"
    /\ sessionState' = "rejected"
    /\ UNCHANGED <<initState, loginState, loggedInUser, startupTrace,
                   console, screen, demoVars, landingVars>>

\* variant: login's continuation logs but does not mount
LoginResolved_NoMount ==
    /\ loginState = "pending"
    /\ loginState' = "resolved"
    /\ loggedInUser' = User(UID)
    /\ console' = Append(console, "login successful")
    /\ UNCHANGED <<initState, sessionState, startupTrace, screen, demoVars,
                   landingVars>>

\* login(UID).then(user => { console.log(...); mount })
LoginResolved ==
    /\ loginState = "pending"
    /\ loginState' = "resolved"
    /\ loggedInUser' = User(UID)
    /\ console' = Append(console, "login successful")
    /\ startupTrace' = Append(startupTrace, "mount")
    /\ MountApp
    /\ UNCHANGED <<initState, sessionState>>

\* variant: a failed login is retried
LoginRejected_Retries ==
    /\ loginState = "pending"
    /\ loginState' = "pending"
    /\ Len(startupTrace) < 6
    /\ console' = Append(console, "login failed")
    /\ startupTrace' = Append(startupTrace, "login")
    /\ UNCHANGED <<initState, sessionState, loggedInUser, screen, demoVars,
                   landingVars>>

\* login(UID).catch(console.log)
LoginRejected ==
    /\ loginState = "pending"
    /\ loginState' = "rejected"
    /\ console' = Append(console, "login failed")
    /\ UNCHANGED <<initState, sessionState, loggedInUser, startupTrace,
                   screen, demoVars, landingVars>>

(***************************************************************************)
(* App: navigation between the two routes.                                 *)
(***************************************************************************)
\* LandingPage: navigate("/demo-ui")
NavigateToDemo ==
    /\ screen = "landing"
    /\ screen' = "demo"
    /\ UnmountLandingPage
    /\ MountChatDemo
    /\ UNCHANGED startupVars

\* the browser goes back to "/"
NavigateToLanding ==
    /\ screen = "demo"
    /\ screen' = "landing"
    /\ UnmountChatDemo
    /\ MountLandingPage
    /\ UNCHANGED startupVars

(***************************************************************************)
(* ChatDemo: the selector callback and the call-log lookup.                *)
(***************************************************************************)
\* Conversation.getConversationWith()
GetConversationWith(item) == IF IsConversation(item) THEN item.with ELSE item

\* variant: the group branch forgets setSelectedUser(undefined)
ResolveParticipant_KeepsUser(call, me, su, sg) ==
    IF me # None /\ call.initiator.id = me.id
    THEN IF IsUser(call.receiver)
         THEN [user |-> call.receiver, group |-> None]
         ELSE IF IsGroup(call.receiver)
              THEN [user |-> su, group |-> call.receiver]
              ELSE [user |-> su, group |-> sg]
    ELSE [user |-> call.initiator, group |-> None]

\* variant: the comparison of the initiator with the session user is inverted
ResolveParticipant_Inverted(call, me, su, sg) ==
    IF me # None /\ call.initiator.id # me.id
    THEN IF IsUser(call.receiver)
         THEN [user |-> call.receiver, group |-> None]
         ELSE IF IsGroup(call.receiver)
              THEN [user |-> None, group |-> call.receiver]
              ELSE [user |-> su, group |-> sg]
    ELSE [user |-> call.initiator, group |-> None]

\* variant: the setSelectedGroup(undefined) calls are missing
ResolveParticipant_KeepsGroup(call, me, su, sg) ==
    IF me # None /\ call.initiator.id = me.id
    THEN IF IsUser(call.receiver)
         THEN [user |-> call.receiver, group |-> sg]
         ELSE IF IsGroup(call.receiver)
              THEN [user |-> None, group |-> call.receiver]
              ELSE [user |-> su, group |-> sg]
    ELSE [user |-> call.initiator, group |-> sg]

\* variant: a final else clears both slots for an unrecognised receiver
ResolveParticipant_ClearsUnknown(call, me, su, sg) ==
    IF me # None /\ call.initiator.id = me.id
    THEN IF IsUser(call.receiver)
         THEN [user |-> call.receiver, group |-> None]
         ELSE IF IsGroup(call.receiver)
              THEN [user |-> None, group |-> call.receiver]
              ELSE [user |-> None, group |-> None]
    ELSE [user |-> call.initiator, group |-> None]

\* the user/group setters of the continuation in handleCallLogClick
\* (ChatDemo.tsx:58-71), as the pair of slots they leave behind
ResolveParticipant(call, me, su, sg) ==
    IF me # None /\ call.initiator.id = me.id
    THEN IF IsUser(call.receiver)
         THEN [user |-> call.receiver, group |-> None]
         ELSE IF IsGroup(call.receiver)
              THEN [user |-> None, group |-> call.receiver]
              ELSE [user |-> su, group |-> sg]
    ELSE [user |-> call.initiator, group |-> None]

\* variant: the user and group branches forget setSelectedCall(undefined)
SelectorItemClicked_KeepsCall(activeItem) ==
    /\ screen = "demo"
    /\ lastClick' = activeItem
    /\ LET item == GetConversationWith(activeItem) IN
       IF IsUser(item)
       THEN /\ selectedUser' = item
            /\ selectedGroup' = None
            /\ lastWrite' = [op |-> "click", arg |-> activeItem]
            /\ lastReject' = NoReject
            /\ UNCHANGED <<pending, selectedCall>>
       ELSE IF IsGroup(item)
       THEN /\ selectedUser' = None
            /\ selectedGroup' = item
            /\ lastWrite' = [op |-> "click", arg |-> activeItem]
            /\ lastReject' = NoReject
            /\ UNCHANGED <<pending, selectedCall>>
       ELSE IF IsCall(item)
       THEN /\ Len(pending) < MaxPending
            /\ pending' = AddLookup(pending, item)
            /\ UNCHANGED <<selectedUser, selectedGroup, selectedCall,
                           lastWrite, lastReject>>
       ELSE UNCHANGED <<selectedUser, selectedGroup, selectedCall,
                        lastWrite, lastReject, pending>>
    /\ UNCHANGED <<startupVars, screen, outgoingCall, callListeners,
                   listenerID, now, demoMounts, landingVars>>

\* onSelectorItemClicked(activeItem)
SelectorItemClicked(activeItem) ==
    /\ screen = "demo"
    /\ lastClick' = activeItem
    /\ LET item == GetConversationWith(activeItem) IN
       IF IsUser(item)
       THEN /\ selectedUser' = item
            /\ selectedCall' = None
            /\ selectedGroup' = None
            /\ lastWrite' = [op |-> "click", arg |-> activeItem]
            /\ lastReject' = NoReject
            /\ UNCHANGED pending
       ELSE IF IsGroup(item)
       THEN /\ selectedUser' = None
            /\ selectedGroup' = item
            /\ selectedCall' = None
            /\ lastWrite' = [op |-> "click", arg |-> activeItem]
            /\ lastReject' = NoReject
            /\ UNCHANGED pending
       ELSE IF IsCall(item)
       THEN \* handleCallLogClick: starts CometChat.getLoggedinUser()
            /\ Len(pending) < MaxPending
            /\ pending' = AddLookup(pending, item)
            /\ UNCHANGED <<selectedUser, selectedGroup, selectedCall,
                           lastWrite, lastReject>>
       ELSE UNCHANGED <<selectedUser, selectedGroup, selectedCall,
                        lastWrite, lastReject, pending>>
    /\ UNCHANGED <<startupVars, screen, outgoingCall, callListeners,
                   listenerID, now, demoMounts, landingVars>>

\* variant: the call slot is committed in a render of its own, before the
\* user/group setters
LookupResolved_CallOnly(i) ==
    /\ screen = "demo"
    /\ i \in 1..Len(pending)
    /\ selectedCall' = pending[i]
    /\ lastWrite' = [op |-> "resolve", arg |-> pending[i]]
    /\ lastReject' = NoReject
    /\ pending' = Remove(pending, i)
    /\ UNCHANGED <<startupVars, screen, selectedUser, selectedGroup,
                   outgoingCall, callListeners, listenerID, now, demoMounts,
                   lastClick, landingVars>>

\* the continuation of CometChat.getLoggedinUser() in handleCallLogClick;
\* the lookups are independent promises and resolve in any order
LookupResolved(i) ==
    /\ screen = "demo"
    /\ i \in 1..Len(pending)
    /\ LET call == pending[i]
           slots == ResolveParticipant(call, loggedInUser, selectedUser,
                                       selectedGroup)
       IN /\ selectedUser' = slots.user
          /\ selectedGroup' = slots.group
          /\ selectedCall' = call
          /\ lastWrite' = [op |-> "resolve", arg |-> call]
    /\ lastReject' = NoReject
    /\ pending' = Remove(pending, i)
    /\ UNCHANGED <<startupVars, screen, outgoingCall, callListeners,
                   listenerID, now, demoMounts, lastClick, landingVars>>

\* the four slots of the screen
SlotsSnapshot ==
    [kind |-> "slots", user |-> selectedUser, group |-> selectedGroup,
     call |-> selectedCall, outgoing |-> outgoingCall]

\* variant: a catch handler resets the selection
LookupRejected_ClearsSelection(i) ==
    /\ screen = "demo"
    /\ i \in 1..Len(pending)
    /\ pending' = Remove(pending, i)
    /\ lastReject' = SlotsSnapshot
    /\ selectedUser' = None
    /\ selectedGroup' = None
    /\ selectedCall' = None
    /\ UNCHANGED <<startupVars, screen, outgoingCall, callListeners,
                   listenerID, now, demoMounts, lastClick, lastWrite,
                   landingVars>>

\* the lookup rejects: handleCallLogClick attaches no catch
LookupRejected(i) ==
    /\ screen = "demo"
    /\ i \in 1..Len(pending)
    /\ pending' = Remove(pending, i)
    /\ lastReject' = SlotsSnapshot
    /\ UNCHANGED <<startupVars, screen, selectedUser, selectedGroup,
                   selectedCall, outgoingCall, callListeners, listenerID,
                   now, demoMounts, lastClick, lastWrite, landingVars>>

(***************************************************************************)
(* ChatDemo: call events.                                                  *)
(***************************************************************************)
CallEvents == {"onOutgoingCallAccepted", "onOutgoingCallRejected",
               "onIncomingCallCancelled", "onCallEndedMessageReceived"}

\* what each callback of the CallListener leaves in the outgoing-call slot
ListenerCallback(ev, oc) ==
    IF ev = "onIncomingCallCancelled" THEN oc ELSE None

\* the SDK delivers an event to the listener the screen registered
CallEventDelivered(ev) ==
    /\ screen = "demo"
    /\ listenerID \in callListeners
    /\ outgoingCall' = ListenerCallback(ev, outgoingCall)
    /\ UNCHANGED <<startupVars, screen, selectedUser, selectedGroup,
                   selectedCall, pending, callListeners, listenerID, now,
                   demoMounts, lastClick, lastWrite, lastReject,
                   landingVars>>

\* variant: onDecline passes the declined call to setOutgoingCall
IncomingCallDeclined_KeepsCall ==
    /\ screen = "demo"
    /\ \E call \in Calls : outgoingCall' = call
    /\ UNCHANGED <<startupVars, screen, selectedUser, selectedGroup,
                   selectedCall, pending, callListeners, listenerID, now,
                   demoMounts, lastClick, lastWrite, lastReject,
                   landingVars>>

\* CometChatIncomingCall onDecline: rejectCall(...); setOutgoingCall(undefined)
IncomingCallDeclined ==
    /\ screen = "demo"
    /\ outgoingCall' = None
    /\ UNCHANGED <<startupVars, screen, selectedUser, selectedGroup,
                   selectedCall, pending, callListeners, listenerID, now,
                   demoMounts, lastClick, lastWrite, lastReject,
                   landingVars>>

\* CometChatOutgoingCall onCallCanceled; the component is rendered only
\* while the outgoing-call slot is populated
OutgoingCallCanceled ==
    /\ screen = "demo"
    /\ outgoingCall # None
    /\ outgoingCall' = None
    /\ UNCHANGED <<startupVars, screen, selectedUser, selectedGroup,
                   selectedCall, pending, callListeners, listenerID, now,
                   demoMounts, lastClick, lastWrite, lastReject,
                   landingVars>>

(***************************************************************************)
(* LandingPage: the collapsible items.                                     *)
(***************************************************************************)
\* variant: the updater only ever adds the id
Toggle_AddOnly(prev, id) == prev \cup {id}

\* variant: accordion behaviour, opening an item closes the others
Toggle_Accordion(prev, id) == IF id \in prev THEN prev \ {id} ELSE {id}

\* the updater of setOpenItems in toggleItem: copy, then delete or add
Toggle(prev, id) == IF id \in prev THEN prev \ {id} ELSE prev \cup {id}

\* onClick={() => toggleItem(item.id)}
ToggleItem(id) ==
    /\ screen = "landing"
    /\ openItems' = Toggle(openItems, id)
    /\ toggleHist' =
          LastTwo(Append(toggleHist, [id |-> id, before |-> openItems]))
    /\ UNCHANGED <<startupVars, screen, demoVars>>

\* const isOpen = openItems.has(item.id)
IsOpen(id) == id \in openItems

(***************************************************************************)
(* ChatDemo: which of the three views the render shows.                    *)
(***************************************************************************)
\* variant: the ternary tests the call slot first
RenderView_CallFirst(su, sg, sc) ==
    IF sc # None
    THEN "callSelected"
    ELSE IF su # None \/ sg # None THEN "conversation" ELSE "empty"

RenderView(su, sg, sc) ==
    IF su # None \/ sg # None
    THEN "conversation"
    ELSE IF sc # None THEN "callSelected" ELSE "empty"

View == RenderView(selectedUser, selectedGroup, selectedCall)

(***************************************************************************)
(* The program.                                                            *)
(***************************************************************************)
Next ==
    \/ InitResolved
    \/ InitRejected
    \/ SessionResolved
    \/ SessionRejected
    \/ LoginResolved
    \/ LoginRejected
    \/ NavigateToDemo
    \/ NavigateToLanding
    \/ \E item \in Items : SelectorItemClicked(item)
    \/ \E i \in 1..MaxPending : LookupResolved(i)
    \/ \E i \in 1..MaxPending : LookupRejected(i)
    \/ \E ev \in CallEvents : CallEventDelivered(ev)
    \/ IncomingCallDeclined
    \/ \E id \in ItemIds : ToggleItem(id)

Spec == Init /\ [][Next]_vars

\* every SDK promise of the startup chain settles, and the event loop then
\* runs the continuation the chain attached to it
FairSpec ==
    /\ Init
    /\ [][Next]_vars
    /\ WF_vars(InitResolved \/ InitRejected)
    /\ WF_vars(SessionResolved \/ SessionRejected)
    /\ WF_vars(LoginResolved \/ LoginRejected)

TypeOK ==
    /\ initState \in {"pending", "resolved", "rejected"}
    /\ sessionState \in {"idle", "pending", "user", "null", "rejected"}
    /\ loginState \in {"idle", "pending", "resolved", "rejected"}
    /\ loggedInUser \in Users \cup {None}
    /\ screen \in {"none", "landing", "demo"}
    /\ selectedUser \in Users \cup {None}
    /\ selectedGroup \in Groups \cup {None}
    /\ selectedCall \in Calls \cup {None}
    /\ outgoingCall \in Calls \cup {None}
    /\ Len(pending) <= MaxPending
    /\ \A i \in 1..Len(pending) : pending[i] \in Calls
    /\ callListeners \subseteq 0..MaxClock
    /\ now \in 0..MaxClock
    /\ demoMounts \in 0..MaxMounts
    /\ lastClick \in Items \cup {None}
    /\ openItems \subseteq ItemIds
    /\ Len(toggleHist) <= 2

(***************************************************************************)
(* Vocabulary of the properties.                                           *)
(***************************************************************************)
Mounted == screen # "none"

DemoShown == screen = "demo"

Populated(slot) == slot # None

NumPopulated ==
    Cardinality({k \in {"user", "group", "call"} :
        \/ k = "user" /\ Populated(selectedUser)
        \/ k = "group" /\ Populated(selectedGroup)
        \/ k = "call" /\ Populated(selectedCall)})

\* the participant the conversation view is rendered for
Shown == IF Populated(selectedUser) THEN selectedUser ELSE selectedGroup

InitiatorIsSessionUser(call) ==
    loggedInUser # None /\ call.initiator.id = loggedInUser.id

(***************************************************************************)
(* C1                                                                      *)
(***************************************************************************)
\* C1 (as stated): at most one of the three selection slots is populated in
\* every reachable state.
C1_SlotsMutuallyExclusive == NumPopulated <= 1

\* C1 (amended): the user slot and the group slot are never both populated,
\* and the call slot is populated only by a call-log resolution (it then
\* holds the resolved call and may be populated together with the user or
\* the group slot); any later user or group selection clears it again.
C1_CallSlotOnlyBesideParticipant ==
    /\ ~(Populated(selectedUser) /\ Populated(selectedGroup))
    /\ Populated(selectedCall) =>
          lastWrite = [op |-> "resolve", arg |-> selectedCall]

\* a call-log resolution has left the user slot and the call slot populated
C1_Witness ==
    /\ DemoShown
    /\ Populated(selectedUser)
    /\ Populated(selectedCall)
    /\ lastWrite.op = "resolve"

(***************************************************************************)
(* C2                                                                      *)
(***************************************************************************)
\* C2: right after a user item (or a conversation with a user) was selected
\* the user slot holds that user and the group and call slots are empty;
\* right after a group item was selected the group slot holds that group and
\* the user and call slots are empty.
C2_SelectClearsOthers ==
    lastWrite.op = "click" =>
        LET item == GetConversationWith(lastWrite.arg) IN
        /\ IsUser(item) =>
              /\ selectedUser = item
              /\ selectedGroup = None
              /\ selectedCall = None
        /\ IsGroup(item) =>
              /\ selectedGroup = item
              /\ selectedUser = None
              /\ selectedCall = None

\* a group was selected while a call-log lookup clicked earlier is in flight
C2_Witness ==
    /\ lastWrite.op = "click"
    /\ IsGroup(GetConversationWith(lastWrite.arg))
    /\ selectedGroup = lastWrite.arg
    /\ Len(pending) > 0

StartupFailed ==
    \/ initState = "rejected"
    \/ sessionState = "rejected"
    \/ loginState = "rejected"

FailureLogged ==
    \E i \in 1..Len(console) : console[i] \in {"init failed", "login failed"}

\* C5: whenever the UI tree is mounted, init has resolved, a session exists
\* (the session check returned a user, or it returned none and login
\* resolved), and the startup steps ran in the order init, session check,
\* login (only if no user), mount.
C5_MountOnlyAfterSession ==
    Mounted =>
        /\ initState = "resolved"
        /\ loggedInUser # None
        /\ \/ /\ sessionState = "user"
              /\ loginState = "idle"
              /\ startupTrace = <<"init", "getLoggedinUser", "mount">>
           \/ /\ sessionState = "null"
              /\ loginState = "resolved"
              /\ startupTrace = <<"init", "getLoggedinUser", "login", "mount">>

\* the UI is mounted on the login path
C5_Witness ==
    /\ Mounted
    /\ sessionState = "null"
    /\ loginState = "resolved"

(***************************************************************************)
(* C6                                                                      *)
(***************************************************************************)
\* C6: if init, the session check or login failed, the failure has been
\* logged and the UI is not mounted.
C6_FailureLoggedNeverMounted ==
    StartupFailed => FailureLogged /\ ~Mounted

(***************************************************************************)
(* C7                                                                      *)
(***************************************************************************)
\* C7: while the demo screen is mounted exactly one call listener exists,
\* the one its effect registered; while it is not mounted, after any number
\* of mounts and unmounts, no listener remains.
C7_ListenerScopedToMount ==
    /\ DemoShown => callListeners = {listenerID}
    /\ ~DemoShown => callListeners = {}

\* the screen was mounted twice and is unmounted again
C7_Witness ==
    /\ screen = "landing"
    /\ demoMounts = 2
    /\ callListeners = {}

(***************************************************************************)
(* C8                                                                      *)
(***************************************************************************)
\* C8: once no session lookup is pending, a user or group item clicked last
\* is what the selection slots hold: no resolution of an earlier call-log
\* click has overwritten it.
C8_LastClickWins ==
    (DemoShown /\ pending = <<>>) =>
        LET item == GetConversationWith(lastClick) IN
        /\ IsUser(item) =>
              /\ selectedUser = item
              /\ selectedGroup = None
              /\ selectedCall = None
        /\ IsGroup(item) =>
              /\ selectedGroup = item
              /\ selectedUser = None
              /\ selectedCall = None

(***************************************************************************)
(* C9                                                                      *)
(***************************************************************************)
\* C9: the mounted demo screen renders exactly one of the three views: the
\* conversation view iff the user or the group slot is populated, the
\* call-selected placeholder iff the call slot is populated and neither of
\* the other two is, the empty prompt iff no slot is populated.
C9_ExactlyOneView ==
    DemoShown =>
        /\ View \in {"conversation", "callSelected", "empty"}
        /\ View = "conversation" <=>
              (Populated(selectedUser) \/ Populated(selectedGroup))
        /\ View = "callSelected" <=>
              /\ Populated(selectedCall)
              /\ ~Populated(selectedUser)
              /\ ~Populated(selectedGroup)
        /\ View = "empty" <=> NumPopulated = 0

\* the conversation view is rendered while the call slot is populated too
C9_Witness ==
    /\ DemoShown
    /\ View = "conversation"
    /\ Populated(selectedCall)

(***************************************************************************)
(* C10                                                                     *)
(***************************************************************************)
\* C10: init, the session check and login are each invoked at most once,
\* and login is invoked iff the session check reported no user.
C10_LinearChainNoRetry ==
    /\ Count(startupTrace, "init") <= 1
    /\ Count(startupTrace, "getLoggedinUser") <= 1
    /\ Count(startupTrace, "login") <= 1
    /\ Count(startupTrace, "login") = 1 <=> sessionState = "null"
    /\ loginState # "idle" <=> sessionState = "null"

\* login failed after the session check reported no user
C10_Witness ==
    /\ sessionState = "null"
    /\ loginState = "rejected"
    /\ Count(startupTrace, "login") = 1

(***************************************************************************)
(* C11                                                                     *)
(***************************************************************************)
StartupPending ==
    \/ initState = "pending"
    \/ sessionState = "pending"
    \/ loginState = "pending"

\* C11: while init, the session check or login is still pending the UI is
\* not mounted; and when every startup promise settles, the UI is eventually
\* mounted unless one of them failed.
C11_MountSuspendedUntilSettled ==
    /\ [](StartupPending => ~Mounted)
    /\ <>(Mounted \/ StartupFailed)

\* all three startup calls have resolved and the UI is mounted
C11_Witness ==
    /\ ~StartupPending
    /\ ~StartupFailed
    /\ loginState = "resolved"
    /\ screen \in {"landing", "demo"}

(***************************************************************************)
(* C12                                                                     *)
(***************************************************************************)
\* C12: when the last two toggleItem calls were for the same id, the open
\* set is what it was before the first of them; in particular an item
\* toggled twice from the initial all-closed state is closed again.
C12_ToggleTwiceRestores ==
    (Len(toggleHist) = 2 /\ toggleHist[1].id = toggleHist[2].id) =>
        openItems = toggleHist[1].before

\* an item was toggled twice while another item was open
C12_Witness ==
    /\ Len(toggleHist) = 2
    /\ toggleHist[1].id = toggleHist[2].id
    /\ toggleHist[1].before # {}
    /\ toggleHist[1].id \notin toggleHist[1].before

C14_RejectionChangesNothing ==
    lastReject # NoReject => SlotsSnapshot = lastReject

\* a lookup rejected while a user and a call were selected
C14_Witness ==
    /\ lastReject # NoReject
    /\ Populated(selectedUser)
    /\ Populated(selectedCall)

(***************************************************************************)
(* C15                                                                     *)
(***************************************************************************)
\* C15: the last toggleItem(id) flipped the membership of id in the open
\* set and left the membership of every other id as it was.
C15_ToggleChangesOnlyItsItem ==
    Len(toggleHist) >= 1 =>
        LET last == toggleHist[Len(toggleHist)] IN
        /\ IsOpen(last.id) <=> last.id \notin last.before
        /\ \A other \in ItemIds \ {last.id} :
              IsOpen(other) <=> other \in last.before

\* every item is open at the same time
C15_Witness ==
    /\ screen = "landing"
    /\ Len(toggleHist) >= 1
    /\ \A id \in ItemIds : IsOpen(id)

(***************************************************************************)
(* C16                                                                     *)
(***************************************************************************)
\* C16: the user slot and the group slot are never both populated.
C16_UserAndGroupExclusive ==
    ~Populated(selectedUser) \/ ~Populated(selectedGroup)

\* a resolution put a user into the slots after a group had been clicked
\* while the lookup was in flight
C16_Witness ==
    /\ lastWrite.op = "resolve"
    /\ IsGroup(GetConversationWith(lastClick))
    /\ Populated(selectedUser)
    /\ ~Populated(selectedGroup)

ResolutionStep ==
    /\ screen' = "demo"
    /\ Len(pending') < Len(pending)
    /\ lastWrite'.op = "resolve"
    /\ lastReject' = NoReject

C19_MountedAtMostOnce ==
    /\ Count(startupTrace, "mount") <= 1
    /\ Mounted <=> Count(startupTrace, "mount") = 1

\* the UI was mounted on the existing-session path
C19_Witness ==
    /\ Mounted
    /\ sessionState = "user"
    /\ Count(startupTrace, "mount") = 1

=============================================================================
